---- MODULE Spec2Model ----
(***************************************************************************)
(* The user-account service of task16.py: the users table, the four        *)
(* request handlers (register, login, forgot-password, reset-password)     *)
(* and the background e-mail task.  One action is one store round trip of  *)
(* a handler together with the local computation around it; requests whose *)
(* handler is between two round trips are kept in the bag inflight.        *)
(***************************************************************************)
EXTENDS Bags, FiniteSets, Integers, Sequences, TLC

VARIABLES
    users,      \* the rows of table "users", in insertion order (id = position)
    inflight,   \* bag of requests whose handler has started and not finished
    now,        \* the clock (datetime.utcnow()), in hours
    delivered,  \* tokens that reached a mailbox (the tokens a client can present)
    leaked,     \* sessions opened by a finished request and never closed
    used,       \* tokens with which reset-password has succeeded
    lastReset,  \* per account id: <<>> or <<what the last successful reset did>>
    last,       \* the response most recently sent
    started     \* number of requests received so far

vars == <<users, inflight, now, delivered, leaked, used, lastReset, last, started>>

----------------------------------------------------------------------------
(* Bounds of the model                                                     *)

MaxInFlight == 2
MaxRequests == 3
MaxTime == 2

(* Input domains                                                           *)

Emails == {"a@x.com", "b@x.com"}
Passwords == {"p1", "p2"}
Names == {"Ann"}
Salts == {"s1"}
\* phone_number as sent by the client: a string, here a sequence of
\* characters, a digit being 0..9 and 10 standing for any non-digit
PhoneInputs == { <<1, 2, 3, 4, 5, 6, 7, 8, 9, 0>>,
                 <<0, 1, 2, 3, 4, 5, 6, 7, 8, 9, 0>>,
                 <<1, 0, 0, 0, 0, 0, 0, 0, 0, 1>>,
                 <<1, 2, 3>> }

----------------------------------------------------------------------------
(* Constants of the program                                                *)

TokenTTL == 1           \* timedelta(hours=1)
MinPhoneLen == 10
MaxPhoneLen == 15

Null == <<>>
Some(x) == <<x>>

----------------------------------------------------------------------------
(* Pure functions                                                          *)

RECURSIVE ToInt(_)
ToInt(v) == IF v = <<>> THEN 0
            ELSE 10 * ToInt(SubSeq(v, 1, Len(v) - 1)) + v[Len(v)]

IsDigitString(v) == Len(v) > 0 /\ \A i \in 1..Len(v) : v[i] \in 0..9

\* UserCreate.validate_phone_number: <<FALSE, 0>> is the ValueError
validate_phone_number(v) ==
    IF ~IsDigitString(v) \/ ~(MinPhoneLen <= Len(v) /\ Len(v) <= MaxPhoneLen)
    THEN <<FALSE, 0>>
    ELSE <<TRUE, ToInt(v)>>

\* pwd_context.hash: bcrypt, the salt of the call kept beside the digest
pwd_hash(password, salt) == [salt |-> salt, digest |-> <<salt, password>>]

\* pwd_context.verify: recompute with the stored salt and compare
pwd_verify(password, hashed) == hashed.digest = <<hashed.salt, password>>

\* jwt.encode({"email": .., "exp": ..}, SECRET_KEY, "HS256")
jwt_encode(email, exp) == [form |-> "signed", email |-> email, exp |-> exp]

Malformed == [form |-> "malformed", email |-> "", exp |-> 0]

\* (jwt_decode_ignoring_exp: the decoder with verify_exp switched off.)
\* jwt.decode: the signature is verified first, then exp.  Whether a token
\* is still accepted at the very instant of its expiry depends on the PyJWT
\* release (exp < now or exp <= now): atExpiry is the outcome at that instant.
jwt_decode_ignoring_exp(token, t, atExpiry) ==
    IF token.form # "signed" THEN "InvalidTokenError" ELSE "ok"

jwt_decode(token, t, atExpiry) ==
    IF token.form # "signed" THEN "InvalidTokenError"
    ELSE IF token.exp < t \/ (token.exp = t /\ atExpiry) THEN "ExpiredSignatureError"
    ELSE "ok"

----------------------------------------------------------------------------
(* The store                                                               *)

\* db.query(User).filter(User.email == email).first()
ByEmail(email) == { i \in 1..Len(users) : users[i].email = email }
first_by_email(email) ==
    IF ByEmail(email) = {} THEN 0
    ELSE CHOOSE i \in ByEmail(email) : \A j \in ByEmail(email) : i <= j

\* db.query(User).filter((User.email == ..) | (User.phone_number == ..)).first()
exists_email_or_phone(email, phone) ==
    \E i \in 1..Len(users) : users[i].email = email \/ users[i].phone_number = phone

\* (unique_violation_email_only: the table without unique=True on phone_number.)
\* the unique indexes of columns email and phone_number
unique_violation_email_only(tbl, row) ==
    \E i \in 1..Len(tbl) : tbl[i].email = row.email

unique_violation(tbl, row) ==
    \E i \in 1..Len(tbl) : tbl[i].email = row.email \/ tbl[i].phone_number = row.phone_number

\* User(...) at register; id is filled in at INSERT.  Column created_at
\* (server_default=func.now(), line 54) is assigned by the server at INSERT
\* and no handler reads or writes it: the rows do not carry it.
new_user(first, lastn, email, phone, hashed) ==
    [first_name |-> first, last_name |-> lastn, email |-> email,
     phone_number |-> phone, password |-> hashed,
     reset_token |-> Null, reset_token_expires |-> Null]

insert_row(tbl, row) ==
    Append(tbl, [id |-> Len(tbl) + 1, first_name |-> row.first_name,
                 last_name |-> row.last_name, email |-> row.email,
                 phone_number |-> row.phone_number, password |-> row.password,
                 reset_token |-> row.reset_token,
                 reset_token_expires |-> row.reset_token_expires])

\* (forgot_update_without_expiry: the handler without line 150.)
\* forgot_password: user.reset_token = token; user.reset_token_expires = ..
forgot_update_without_expiry(row, token, expires) ==
    [row EXCEPT !.reset_token = Some(token)]

forgot_update(row, token, expires) ==
    [row EXCEPT !.reset_token = Some(token), !.reset_token_expires = Some(expires)]

\* (reset_update_on_copy: the new hash never reaches the loaded row;
\*  reset_update_clearing_token: the handler also consuming the stored token.)
\* reset_password: user.password = hashed_password
reset_update_on_copy(row, hashed) == row

reset_update_clearing_token(row, hashed) ==
    [row EXCEPT !.password = hashed, !.reset_token = Null, !.reset_token_expires = Null]

reset_update(row, hashed) == [row EXCEPT !.password = hashed]

----------------------------------------------------------------------------
(* Responses and request bookkeeping                                       *)

Response(op, status, detail, txn) ==
    [op |-> op, status |-> status, detail |-> detail, txn |-> txn]

\* the response to reset-password, with the token it answers and the time
ResetResponse(token, status, detail, txn) ==
    [op |-> "reset-password", status |-> status, detail |-> detail, txn |-> txn,
     token |-> token, at |-> now]

Enter(q) == inflight' = inflight (+) SetToBag({q})
Leave(q) == inflight' = inflight (-) SetToBag({q})
Move(q, r) == inflight' = (inflight (-) SetToBag({q})) (+) SetToBag({r})
Pending(op, pc) == { q \in BagToSet(inflight) : q.op = op /\ q.pc = pc }
CanStart == BagCardinality(inflight) < MaxInFlight
Receive == started < MaxRequests /\ started' = started + 1

\* The table outlives the process (create_all only creates it when it is
\* missing): the service starts on an empty table or on one that an earlier
\* run left an account in.
InitialTables ==
    { <<>>,
      insert_row(<<>>, new_user("Ann", "Ann", "a@x.com", 1234567890, pwd_hash("p1", "s1"))) }

Init ==
    /\ users \in InitialTables
    /\ inflight = EmptyBag
    /\ now = 0
    /\ delivered = {}
    /\ leaked = 0
    /\ used = {}
    /\ lastReset = [i \in 1..Len(users) |-> Null]
    /\ last = Response("read_root", 200, "Welcome to the User Management System", "none")
    /\ started = 0

----------------------------------------------------------------------------
(* POST /register                                                          *)

\* pydantic rejects the body before the handler runs: no session is opened
register_invalid(phone_in) ==
    /\ Receive
    /\ ~validate_phone_number(phone_in)[1]
    /\ last' = Response("register", 422, "validation error", "none")
    /\ UNCHANGED <<users, inflight, now, delivered, leaked, used, lastReset>>

\* lines 79-87: open the session, hash the password, run the existence query
register(first, lastn, email, phone_in, password, salt) ==
    LET v == validate_phone_number(phone_in)
        row == new_user(first, lastn, email, v[2], pwd_hash(password, salt))
    IN  /\ v[1]
        /\ Receive
        /\ IF exists_email_or_phone(email, v[2])
           THEN /\ last' = Response("register", 400,
                                    "Email or Phone Number already registered", "released")
                /\ UNCHANGED inflight
           ELSE /\ CanStart
                /\ Enter([op |-> "register", pc |-> "commit", row |-> row])
                /\ UNCHANGED last
        /\ UNCHANGED <<users, now, delivered, leaked, used, lastReset>>

\* lines 97-110: INSERT, COMMIT and the refresh of the new row; the unique indexes reject a
\* duplicate with an IntegrityError, which the handler's except Exception
\* turns into a rollback and a 500
register_commit(q) ==
    /\ q \in Pending("register", "commit")
    /\ IF unique_violation(users, q.row)
       THEN /\ Leave(q)
            /\ last' = Response("register", 500,
                                "An error occurred during registration.", "rolled_back")
            /\ UNCHANGED <<users, lastReset>>
       ELSE /\ users' = insert_row(users, q.row)
            /\ lastReset' = Append(lastReset, Null)
            /\ Leave(q)
            /\ last' = Response("register", 200, "User registered successfully", "committed")
    /\ UNCHANGED <<now, delivered, leaked, used>>
    /\ UNCHANGED started

----------------------------------------------------------------------------
(* POST /login                                                             *)

\* (login_outcome_without_verify: the handler without lines 122-125.)
\* lines 115-129: <<status, detail>>
login_outcome_without_verify(email, password) ==
    IF first_by_email(email) = 0 THEN <<400, "Email not found">>
    ELSE <<200, "Login successful">>

login_outcome(email, password) ==
    LET uid == first_by_email(email)
    IN  IF uid = 0 THEN <<400, "Email not found">>
        ELSE IF ~pwd_verify(password, users[uid].password)
             THEN <<400, "Invalid password">>
             ELSE <<200, "Login successful">>

\* one query, then local work; the session is closed on each of the three paths
login(email, password) ==
    /\ Receive
    /\ last' = Response("login", login_outcome(email, password)[1],
                        login_outcome(email, password)[2], "released")
    /\ UNCHANGED <<users, inflight, now, delivered, leaked, used, lastReset>>

----------------------------------------------------------------------------
(* POST /forgot-password                                                   *)

\* lines 133-150: query, 404 if absent, else sign the token and set the
\* two attributes on the loaded row (not yet flushed)
forgot_password(email) ==
    LET uid == first_by_email(email)
    IN  /\ Receive
        /\ IF uid = 0
           THEN /\ last' = Response("forgot-password", 404, "Email not found", "released")
                /\ UNCHANGED inflight
           ELSE /\ CanStart
                /\ Enter([op |-> "forgot-password", pc |-> "commit", id |-> uid,
                          email |-> users[uid].email,
                          token |-> jwt_encode(users[uid].email, now + TokenTTL),
                          expires |-> now + TokenTTL])
                /\ UNCHANGED last
        /\ UNCHANGED <<users, now, delivered, leaked, used, lastReset>>

\* lines 151-164: COMMIT (an UPDATE of the two changed columns of the row),
\* add the mail task, close, 200
forgot_password_commit(q) ==
    /\ q \in Pending("forgot-password", "commit")
    /\ users' = [users EXCEPT ![q.id] = forgot_update(@, q.token, q.expires)]
    /\ Move(q, [op |-> "forgot-password", pc |-> "send",
                tasks |-> <<[to |-> q.email, token |-> q.token]>>])
    /\ last' = Response("forgot-password", 200, "Password reset email sent", "committed")
    /\ UNCHANGED <<now, delivered, leaked, used, lastReset>>
    /\ UNCHANGED started

\* the background task fm.send_message(message), run after the response
send_message_ok(q) ==
    /\ q \in Pending("forgot-password", "send")
    /\ delivered' = delivered \cup { q.tasks[i].token : i \in 1..Len(q.tasks) }
    /\ Leave(q)
    /\ UNCHANGED <<users, now, leaked, used, lastReset, last>>
    /\ UNCHANGED started

send_message_fails(q) ==
    /\ q \in Pending("forgot-password", "send")
    /\ Leave(q)
    /\ UNCHANGED <<users, now, delivered, leaked, used, lastReset, last>>
    /\ UNCHANGED started

----------------------------------------------------------------------------
(* POST /reset-password                                                    *)

\* what a client can send as token: a token it received by mail, one whose
\* payload it rewrote (the signature no longer matches), or no token at all
Forged == [form : {"tampered"}, email : Emails, exp : {0, MaxTime + TokenTTL}]
ResetTokens == delivered \cup Forged \cup {Malformed}

\* lines 168-182 and 187-192
reset_password(token, new_password, salt, atExpiry) ==
    LET d == jwt_decode(token, now, atExpiry)
        uid == first_by_email(token.email)
    IN  /\ token \in ResetTokens
        /\ Receive
        /\ IF d = "ExpiredSignatureError"
           THEN /\ last' = ResetResponse(token, 400, "Token has expired", "released")
                /\ UNCHANGED inflight
           ELSE IF d = "InvalidTokenError" \/ uid = 0
           THEN /\ last' = ResetResponse(token, 400, "Invalid token", "released")
                /\ UNCHANGED inflight
           ELSE /\ CanStart
                /\ Enter([op |-> "reset-password", pc |-> "commit", id |-> uid,
                          token |-> token, new_password |-> new_password,
                          hashed |-> pwd_hash(new_password, salt)])
                /\ UNCHANGED last
        /\ UNCHANGED <<users, now, delivered, leaked, used, lastReset>>

\* lines 183-186 and 192: COMMIT (an UPDATE of column password), 200, close
reset_password_commit(q) ==
    /\ q \in Pending("reset-password", "commit")
    /\ users' = [users EXCEPT ![q.id] = reset_update(@, q.hashed)]
    /\ used' = used \cup {q.token}
    /\ lastReset' = [lastReset EXCEPT ![q.id] =
                        Some([new_password |-> q.new_password,
                              old_hash |-> users[q.id].password])]
    /\ Leave(q)
    /\ last' = ResetResponse(q.token, 200, "Password reset successfully", "committed")
    /\ UNCHANGED <<now, delivered, leaked>>
    /\ UNCHANGED started

----------------------------------------------------------------------------
(* The clock                                                               *)

Tick ==
    /\ now < MaxTime
    /\ now' = now + 1
    /\ UNCHANGED <<users, inflight, delivered, leaked, used, lastReset, last>>
    /\ UNCHANGED started

----------------------------------------------------------------------------
(* The service with a store that answers every statement                   *)

Next ==
    \/ \E p \in PhoneInputs : register_invalid(p)
    \/ \E f \in Names, l \in Names, e \in Emails, p \in PhoneInputs,
          w \in Passwords, s \in Salts : register(f, l, e, p, w, s)
    \/ \E q \in BagToSet(inflight) : register_commit(q)
    \/ \E e \in Emails, w \in Passwords : login(e, w)
    \/ \E e \in Emails : forgot_password(e)
    \/ \E q \in BagToSet(inflight) : forgot_password_commit(q)
    \/ \E q \in BagToSet(inflight) : send_message_ok(q)
    \/ \E q \in BagToSet(inflight) : send_message_fails(q)
    \/ \E t \in ResetTokens, w \in Passwords, s \in Salts, b \in BOOLEAN :
          reset_password(t, w, s, b)
    \/ \E q \in BagToSet(inflight) : reset_password_commit(q)
    \/ Tick

Spec == Init /\ [][Next]_vars

----------------------------------------------------------------------------
(* The service with a store that may fail a statement (connection lost,    *)
(* server error): the statement raises an exception in the handler.        *)

\* register, the query of line 85 raises: except Exception (lines 105-108)
\* rolls back and answers 500, finally closes
register_query_fails ==
    /\ Receive
    /\ last' = Response("register", 500,
                        "An error occurred during registration.", "rolled_back")
    /\ UNCHANGED <<users, inflight, now, delivered, leaked, used, lastReset>>

\* register, the COMMIT of line 98 raises
register_commit_fails(q) ==
    /\ q \in Pending("register", "commit")
    /\ Leave(q)
    /\ last' = Response("register", 500,
                        "An error occurred during registration.", "rolled_back")
    /\ UNCHANGED <<users, now, delivered, leaked, used, lastReset, started>>

\* register, the COMMIT succeeds and the refresh of line 99 raises: the
\* rollback of line 106 finds nothing to undo
register_refresh_fails(q) ==
    /\ q \in Pending("register", "commit")
    /\ ~unique_violation(users, q.row)
    /\ users' = insert_row(users, q.row)
    /\ lastReset' = Append(lastReset, Null)
    /\ Leave(q)
    /\ last' = Response("register", 500,
                        "An error occurred during registration.", "committed")
    /\ UNCHANGED <<now, delivered, leaked, used, started>>

\* login, the query of line 115 raises: nothing catches it and no close is
\* reached; the framework answers 500
login_query_fails ==
    /\ Receive
    /\ leaked' = leaked + 1
    /\ last' = Response("login", 500, "Internal Server Error", "dangling")
    /\ UNCHANGED <<users, inflight, now, delivered, used, lastReset>>

\* forgot_password, the query of line 134 raises
forgot_password_query_fails ==
    /\ Receive
    /\ leaked' = leaked + 1
    /\ last' = Response("forgot-password", 500, "Internal Server Error", "dangling")
    /\ UNCHANGED <<users, inflight, now, delivered, used, lastReset>>

\* forgot_password, the COMMIT of line 151 raises: no rollback, no close,
\* no mail task
forgot_password_commit_fails(q) ==
    /\ q \in Pending("forgot-password", "commit")
    /\ Leave(q)
    /\ leaked' = leaked + 1
    /\ last' = Response("forgot-password", 500, "Internal Server Error", "dangling")
    /\ UNCHANGED <<users, now, delivered, used, lastReset, started>>

\* reset_password, the query of line 175 raises: neither except clause
\* matches, finally closes the session (which releases its transaction)
reset_password_query_fails(token, atExpiry) ==
    /\ token \in ResetTokens
    /\ jwt_decode(token, now, atExpiry) = "ok"
    /\ Receive
    /\ last' = ResetResponse(token, 500, "Internal Server Error", "released")
    /\ UNCHANGED <<users, inflight, now, delivered, leaked, used, lastReset>>

\* reset_password, the COMMIT of line 183 raises
reset_password_commit_fails(q) ==
    /\ q \in Pending("reset-password", "commit")
    /\ Leave(q)
    /\ last' = ResetResponse(q.token, 500, "Internal Server Error", "released")
    /\ UNCHANGED <<users, now, delivered, leaked, used, lastReset, started>>

StoreFails ==
    \/ register_query_fails
    \/ \E q \in BagToSet(inflight) : register_commit_fails(q)
    \/ \E q \in BagToSet(inflight) : register_refresh_fails(q)
    \/ login_query_fails
    \/ forgot_password_query_fails
    \/ \E q \in BagToSet(inflight) : forgot_password_commit_fails(q)
    \/ \E t \in ResetTokens, b \in BOOLEAN : reset_password_query_fails(t, b)
    \/ \E q \in BagToSet(inflight) : reset_password_commit_fails(q)

FaultNext == Next \/ StoreFails

FaultSpec == Init /\ [][FaultNext]_vars

----------------------------------------------------------------------------
(* Properties                                                              *)

Requests == BagToSet(inflight)
Rows == 1..Len(users)
HasEmail(e) == \E i \in Rows : users[i].email = e
Duplicate(e, ph) == \E i \in Rows : users[i].email = e \/ users[i].phone_number = ph
RegisterInputs == Names \X Names \X Emails \X PhoneInputs \X Passwords \X Salts
ResetInputs == ResetTokens \X Passwords \X Salts \X BOOLEAN

\* C1: in every reachable state no two accounts share an email and no two
\* accounts share a phone number, whatever requests ran and however they
\* interleaved.
UniqueEmailAndPhone ==
    \A i \in Rows : \A j \in Rows :
        i # j => /\ users[i].email # users[j].email
                 /\ users[i].phone_number # users[j].phone_number

\* C1 witness: two registrations both passed the existence query, one was
\* committed and the other was turned away by the unique index.
RaceLostAtInsert ==
    /\ last.op = "register" /\ last.status = 500
    /\ Len(users) = 2

\* C2: a register request whose email or phone number is that of an account
\* in the store fails with 400 and changes no account, whether the
\* duplicate is seen by the existence query or only by the unique index at
\* insert time.
DuplicateRegisterIsConflict ==
    [][ /\ \A x \in RegisterInputs :
            ( /\ register(x[1], x[2], x[3], x[4], x[5], x[6])
              /\ Duplicate(x[3], validate_phone_number(x[4])[2]) )
            => (last'.op = "register" /\ last'.status = 400 /\ users' = users)
        /\ \A q \in Requests :
            ( /\ register_commit(q)
              /\ Duplicate(q.row.email, q.row.phone_number) )
            => (last'.op = "register" /\ last'.status = 400 /\ users' = users)
      ]_vars

\* C3: a token mailed by forgot-password and presented before its expiry is
\* accepted by reset-password and the reset answers 200; from then until
\* the next reset of that account, login with the new password answers 200
\* and login with the old password, when it is another one, answers
\* 400 Invalid password.
ResetThenLogin ==
    /\ [](\A i \in Rows :
            lastReset[i] # Null =>
                /\ login_outcome(users[i].email, lastReset[i][1].new_password)[1] = 200
                /\ \A w \in Passwords :
                     ( /\ pwd_verify(w, lastReset[i][1].old_hash)
                       /\ w # lastReset[i][1].new_password )
                     => login_outcome(users[i].email, w) = <<400, "Invalid password">>)
    /\ [][ /\ \A x \in ResetInputs :
               ( /\ reset_password(x[1], x[2], x[3], x[4])
                 /\ x[1] \in delivered
                 /\ now < x[1].exp )
               => /\ last' = last
                  /\ \E q \in BagToSet(inflight') :
                        /\ q.op = "reset-password" /\ q.token = x[1]
                        /\ q.new_password = x[2]
                        /\ BagCardinality(inflight') = BagCardinality(inflight) + 1
           /\ \A q \in Requests :
               reset_password_commit(q)
               => /\ last'.op = "reset-password" /\ last'.status = 200
                  /\ lastReset'[q.id] # Null
         ]_vars

\* C3 witness: after a reset that replaced the password by another one, a
\* login has been answered 200.
LoggedInAfterReset ==
    /\ last.op = "login" /\ last.status = 200
    /\ \E i \in Rows :
          /\ lastReset[i] # Null
          /\ ~pwd_verify(lastReset[i][1].new_password, lastReset[i][1].old_hash)

\* C4: once reset-password has succeeded with a token, a later request
\* presenting that token is rejected and changes no password.
TokenSingleUse ==
    [][ /\ \A x \in ResetInputs :
            ( /\ reset_password(x[1], x[2], x[3], x[4])
              /\ x[1] \in used )
            => (last'.op = "reset-password" /\ last'.status = 400
                /\ inflight' = inflight /\ users' = users)
        /\ \A q \in Requests :
            ( /\ reset_password_commit(q)
              /\ q.token \in used )
            => (last'.status # 200 /\ users' = users)
      ]_vars

\* C5: reset-password with a (correctly signed) token whose expiry is
\* earlier than the current time answers 400 Token has expired; with a
\* token whose signature does not verify or that is malformed it answers
\* 400 Invalid token; either way no account changes and the request ends.
BadTokenRejected ==
    [][ \A x \in ResetInputs :
            reset_password(x[1], x[2], x[3], x[4])
            => /\ (x[1].form = "signed" /\ x[1].exp < now)
                  => /\ last'.op = "reset-password" /\ last'.status = 400
                     /\ last'.detail = "Token has expired"
                     /\ users' = users /\ inflight' = inflight
               /\ (x[1].form # "signed")
                  => /\ last'.op = "reset-password" /\ last'.status = 400
                     /\ last'.detail = "Invalid token"
                     /\ users' = users /\ inflight' = inflight
      ]_vars

\* C5 witness: a token from a mailbox was presented after its expiry and
\* was answered Token has expired.
ExpiredTokenPresented ==
    /\ last.op = "reset-password" /\ last.detail = "Token has expired"
    /\ last.token \in delivered
    /\ last.token.exp < last.at

\* C6: login answers 200 exactly when an account has the email and the
\* password verifies against its stored hash, 400 Email not found when no
\* account has the email, 400 Invalid password when the account exists and
\* the password does not verify; the store is the same afterwards.
LoginOutcomeAndFrame ==
    [][ \A e \in Emails : \A w \in Passwords :
            login(e, w)
            => /\ last'.op = "login"
               /\ (last'.status = 200) <=>
                     (\E i \in Rows : users[i].email = e /\ pwd_verify(w, users[i].password))
               /\ ~HasEmail(e)
                     => (last'.status = 400 /\ last'.detail = "Email not found")
               /\ (\E i \in Rows : users[i].email = e /\ ~pwd_verify(w, users[i].password))
                     => (last'.status = 400 /\ last'.detail = "Invalid password")
               /\ users' = users
               /\ inflight' = inflight
      ]_vars

\* C6 witness: a login for an existing account with a password that is not
\* its password was answered.
WrongPasswordLogin ==
    /\ last.op = "login" /\ last.detail = "Invalid password"
    /\ Len(users) > 0

\* C7: when a request has finished, by a response or by an exception at any
\* step, no session it opened is still open.
NoSessionLeft == leaked = 0

\* C8: in register, forgot-password and reset-password, a failed store
\* operation is answered only after the transaction was rolled back (by
\* rollback, or by the close that releases it), and nothing of the failed
\* request is persisted.
RolledBackBeforeError ==
    (last.op \in {"register", "forgot-password", "reset-password"} /\ last.status = 500)
        => last.txn \in {"rolled_back", "released"}

\* C9: forgot-password for an unknown email answers 404, changes no account
\* and schedules nothing; for a known email the handler persists token and
\* expiry on that account, schedules one send of that token to that email
\* and answers 200; mail leaves only through the scheduled task of a
\* request that has answered, and the task, sent or failed, changes neither
\* the response nor any account.
ForgotPasswordFlow ==
    [][ /\ \A e \in Emails :
            forgot_password(e)
            => IF ~HasEmail(e)
               THEN /\ last'.op = "forgot-password" /\ last'.status = 404
                    /\ users' = users /\ inflight' = inflight
               ELSE /\ last' = last /\ users' = users
                    /\ BagCardinality(inflight') = BagCardinality(inflight) + 1
        /\ \A q \in Requests :
            forgot_password_commit(q)
            => /\ users[q.id].email = q.email
               /\ users'[q.id].reset_token = Some(q.token)
               /\ users'[q.id].reset_token_expires = Some(q.token.exp)
               /\ q.token.email = q.email
               /\ \A i \in Rows : i # q.id => users'[i] = users[i]
               /\ \E r \in BagToSet(inflight') :
                     /\ r.op = "forgot-password" /\ r.pc = "send"
                     /\ r.tasks = <<[to |-> q.email, token |-> q.token]>>
               /\ BagCardinality(inflight') = BagCardinality(inflight)
               /\ last'.op = "forgot-password" /\ last'.status = 200
               /\ delivered' = delivered
        /\ (delivered' # delivered)
            => \E q \in Requests : q.op = "forgot-password" /\ q.pc = "send"
                                   /\ send_message_ok(q)
        /\ \A q \in Requests :
            (send_message_ok(q) \/ send_message_fails(q))
            => (users' = users /\ last' = last)
      ]_vars

\* C9 witness: the mail of an answered forgot-password request failed to
\* be sent; the response is still the 200 and the token is on the account.
MailLostAfterResponse ==
    /\ last.op = "forgot-password" /\ last.status = 200
    /\ inflight = EmptyBag
    /\ delivered = {}
    /\ \E i \in Rows : users[i].reset_token # Null

\* C10: reset-password accepts any correctly signed, unexpired token whose
\* email names an account, whatever reset_token the account stores, and
\* its commit changes the password of that account and nothing else:
\* reset_token and reset_token_expires are as before.
ResetIgnoresStoredToken ==
    [][ /\ \A x \in ResetInputs :
            ( /\ reset_password(x[1], x[2], x[3], x[4])
              /\ jwt_decode(x[1], now, x[4]) = "ok"
              /\ HasEmail(x[1].email) )
            => /\ last' = last
               /\ \E q \in BagToSet(inflight') :
                     /\ q.op = "reset-password" /\ q.token = x[1]
                     /\ users[q.id].email = x[1].email
               /\ BagCardinality(inflight') = BagCardinality(inflight) + 1
        /\ \A q \in Requests :
            reset_password_commit(q)
            => /\ pwd_verify(q.new_password, users'[q.id].password)
               /\ users'[q.id] = [users[q.id] EXCEPT !.password = users'[q.id].password]
               /\ \A i \in Rows : i # q.id => users'[i] = users[i]
               /\ last'.status = 200
      ]_vars

\* C10 witness: a reset has just succeeded with a token that is not the
\* one stored on the account, a later forgot-password having overwritten it.
ResetWithOverwrittenToken ==
    /\ last.op = "reset-password" /\ last.status = 200
    /\ \E i \in Rows :
          /\ users[i].email = last.token.email
          /\ users[i].reset_token # Null
          /\ users[i].reset_token # Some(last.token)
          /\ users[i].reset_token[1].exp > last.token.exp

====
